---- MODULE Spec2Model ----
(***************************************************************************)
(* Model of teleportacion_qiskit.py: a linear script that builds two       *)
(* 3-qubit teleportation circuits (qc1 with Bob's classical corrections,   *)
(* qc2 without), samples both on a noiseless simulator, then transpiles    *)
(* qc1 and submits it to a remote backend.                                 *)
(*                                                                         *)
(* Amplitudes are exact: every gate used is real, and with theta = pi/3    *)
(* all amplitudes lie in Z[sqrt 3] once the positive scale factors         *)
(* (1/sqrt 2 of H, 1/2 of Ry and of the prepared vector) are dropped.      *)
(* An amplitude a + b*sqrt(3) is the pair <<a, b>>.  A measurement         *)
(* outcome is possible exactly when its projection is non-zero.            *)
(***************************************************************************)
EXTENDS Integers, Sequences, FiniteSets, TLC

\* ------------------------------------------------------------------ bounds
MaxRuns == 2      \* shots of a simulation that are followed step by step
MaxLevels == 2    \* granularity of the histograms a sampler may return

\* --------------------------------------------------------------- constants
SHOTS == 4096
Sim1Shots == 4096
Sim2Shots == 4096
\* a job asking for twice as many shots
Job3ShotsDouble == 2 * 4096
Job3Shots == 4096
\* theta = pi/3, in units of pi/6
theta == 2

\* ------------------------------------------------- arithmetic in Z[sqrt 3]
Zero == <<0, 0>>
One == <<1, 0>>
AAdd(a, b) == <<a[1] + b[1], a[2] + b[2]>>
ANeg(a) == <<0 - a[1], 0 - a[2]>>
ASub(a, b) == AAdd(a, ANeg(b))
AMul(a, b) == <<a[1] * b[1] + 3 * a[2] * b[2], a[1] * b[2] + a[2] * b[1]>>

Abs(k) == IF k < 0 THEN 0 - k ELSE k

\* 2*cos(k*pi/6) and 2*sin(k*pi/6) for k in -3..3
Cos2(k) ==
  CASE Abs(k) = 0 -> <<2, 0>>
    [] Abs(k) = 1 -> <<0, 1>>
    [] Abs(k) = 2 -> <<1, 0>>
    [] Abs(k) = 3 -> <<0, 0>>

Sin2(k) ==
  LET s == CASE Abs(k) = 0 -> <<0, 0>>
             [] Abs(k) = 1 -> <<1, 0>>
             [] Abs(k) = 2 -> <<0, 1>>
             [] Abs(k) = 3 -> <<2, 0>>
  IN IF k < 0 THEN ANeg(s) ELSE s

\* [cos(theta/2), sin(theta/2)], scaled by 2
initial_state_vector == <<Cos2(theta \div 2), Sin2(theta \div 2)>>

\* ------------------------------------------------------ 3-qubit statevector
Basis == 0..7
Pow2(q) == CASE q = 0 -> 1 [] q = 1 -> 2 [] q = 2 -> 4
Bit(i, q) == (i \div Pow2(q)) % 2
Flip(i, q) == IF Bit(i, q) = 1 THEN i - Pow2(q) ELSE i + Pow2(q)

Ket000 == [i \in Basis |-> IF i = 0 THEN One ELSE Zero]

ApplyH(psi, q) ==
  [i \in Basis |-> IF Bit(i, q) = 0 THEN AAdd(psi[i], psi[Flip(i, q)])
                                    ELSE ASub(psi[Flip(i, q)], psi[i])]
ApplyX(psi, q) == [i \in Basis |-> psi[Flip(i, q)]]
ApplyZ(psi, q) == [i \in Basis |-> IF Bit(i, q) = 1 THEN ANeg(psi[i]) ELSE psi[i]]
ApplyCX(psi, c, t) == [i \in Basis |-> IF Bit(i, c) = 1 THEN psi[Flip(i, t)] ELSE psi[i]]
\* Ry(a) = [[cos a/2, -sin a/2], [sin a/2, cos a/2]], a in units of pi/6
ApplyRy(psi, a, q) ==
  LET c == Cos2(a \div 2)
      s == Sin2(a \div 2)
  IN [i \in Basis |->
        IF Bit(i, q) = 0
          THEN ASub(AMul(c, psi[i]), AMul(s, psi[Flip(i, q)]))
          ELSE AAdd(AMul(s, psi[Flip(i, q)]), AMul(c, psi[i]))]

Possible(psi, q, m) == \E i \in Basis : Bit(i, q) = m /\ psi[i] # Zero
Project(psi, q, m) == [i \in Basis |-> IF Bit(i, q) = m THEN psi[i] ELSE Zero]
\* reset: measure, and flip back to |0> when the outcome was 1
ResetTo0(psi, q, m) == IF m = 1 THEN ApplyX(Project(psi, q, 1), q) ELSE Project(psi, q, 0)
\* state preparation of vec on a qubit that is in |0>
Prepare(psi, vec, q) ==
  [i \in Basis |-> IF Bit(i, q) = 0 THEN AMul(vec[1], psi[i])
                                    ELSE AMul(vec[2], psi[Flip(i, q)])]

\* ------------------------------------------------------------ instructions
Instr(op, q, ctl, c, arg, vec, body) ==
  [op |-> op, q |-> q, ctl |-> ctl, c |-> c, arg |-> arg, vec |-> vec, body |-> body]
Initialize(vec, q) == Instr("initialize", q, -1, -1, 0, vec, "-")
Barrier == Instr("barrier", -1, -1, -1, 0, <<>>, "-")
H(q) == Instr("h", q, -1, -1, 0, <<>>, "-")
CX(c, t) == Instr("cx", t, c, -1, 0, <<>>, "-")
Ry(a, q) == Instr("ry", q, -1, -1, a, <<>>, "-")
\* measure qubit q into classical bit c
Measure(q, c) == Instr("measure", q, -1, c, 0, <<>>, "-")
\* if_test((clbit c, val)) with a one-gate body acting on qubit q
IfTest(c, val, body, q) == Instr("if_test", q, -1, c, val, <<>>, body)

\* classical bits: 0,1 = alice_meas[0], alice_meas[1]; 2 = bob_verif[0]
c_alice == <<0, 1>>
c_bob_verif == 2

\* qc1 with the conditional Z left out
QC1NoZ ==
  << Initialize(initial_state_vector, 0), Barrier,
     H(1), CX(1, 2), Barrier,
     CX(0, 1), H(0), Barrier,
     Measure(0, c_alice[1]), Measure(1, c_alice[2]), Barrier,
     IfTest(c_alice[2], 1, "x", 2),
     Ry(0 - theta, 2), Measure(2, c_bob_verif) >>

\* the instruction list of qc1 (measure([0, 1], c_alice) appends one
\* measure per qubit)
QC1 ==
  << Initialize(initial_state_vector, 0), Barrier,
     H(1), CX(1, 2), Barrier,
     CX(0, 1), H(0), Barrier,
     Measure(0, c_alice[1]), Measure(1, c_alice[2]), Barrier,
     IfTest(c_alice[2], 1, "x", 2),
     IfTest(c_alice[1], 1, "z", 2),
     Ry(0 - theta, 2), Measure(2, c_bob_verif) >>

\* qc2 preparing q[0] with the opposite rotation
QC2WrongSign ==
  << Ry(0 - theta, 0), Barrier,
     H(1), CX(1, 2), Barrier,
     CX(0, 1), H(0), Barrier,
     Measure(0, c_alice[1]), Measure(1, c_alice[2]), Barrier,
     Ry(0 - theta, 2), Measure(2, c_bob_verif) >>

\* the instruction list of qc2
QC2 ==
  << Ry(theta, 0), Barrier,
     H(1), CX(1, 2), Barrier,
     CX(0, 1), H(0), Barrier,
     Measure(0, c_alice[1]), Measure(1, c_alice[2]), Barrier,
     Ry(0 - theta, 2), Measure(2, c_bob_verif) >>

\* ---------------------------------------------------- one shot of a circuit
\* a shot: statevector, classical bits, last measured value of each qubit
\* (-1: not measured), and the gates executed so far
FreshShot ==
  [ip |-> 1, psi |-> Ket000, creg |-> [c \in 0..2 |-> 0],
   qres |-> [q \in 0..2 |-> -1], trace |-> <<>>]

ApplyGate(name, psi, ins) ==
  CASE name = "h" -> ApplyH(psi, ins.q)
    [] name = "x" -> ApplyX(psi, ins.q)
    [] name = "z" -> ApplyZ(psi, ins.q)
    [] name = "cx" -> ApplyCX(psi, ins.ctl, ins.q)
    [] name = "ry" -> ApplyRy(psi, ins.arg, ins.q)

\* the shots that executing instruction ins may lead to
Exec(ins, s) ==
  LET nxt == [s EXCEPT !.ip = @ + 1]
  IN CASE ins.op = "barrier" -> {nxt}
       [] ins.op \in {"h", "x", "z", "cx", "ry"} ->
            {[nxt EXCEPT !.psi = ApplyGate(ins.op, s.psi, ins),
                         !.trace = Append(@, ins.op)]}
       [] ins.op = "initialize" ->
            {[nxt EXCEPT !.psi = Prepare(ResetTo0(s.psi, ins.q, m), ins.vec, ins.q),
                         !.trace = Append(@, ins.op)]
               : m \in {b \in {0, 1} : Possible(s.psi, ins.q, b)}}
       [] ins.op = "measure" ->
            {[nxt EXCEPT !.psi = Project(s.psi, ins.q, m),
                         !.creg[ins.c] = m,
                         !.qres[ins.q] = m,
                         !.trace = Append(@, ins.op)]
               : m \in {b \in {0, 1} : Possible(s.psi, ins.q, b)}}
       [] ins.op = "if_test" ->
            IF s.creg[ins.c] = ins.arg
              THEN {[nxt EXCEPT !.psi = ApplyGate(ins.body, s.psi, ins),
                                !.trace = Append(@, ins.body)]}
              ELSE {nxt}

\* key of a result: the classical bits, highest index first
BitString(creg) == <<creg[2], creg[1], creg[0]>>


\* int(v * S) for a probability v = <<numerator, denominator>>
IntOfScaled(v, S) == (v[1] * S) \div v[2]

\* dict.get(k, default)
Get(d, k, default) == IF k \in DOMAIN d THEN d[k] ELSE default

RECURSIVE SumOf(_)
SumOf(d) ==
  IF DOMAIN d = {} THEN 0
  ELSE LET k == CHOOSE x \in DOMAIN d : TRUE
       IN d[k] + SumOf([x \in DOMAIN d \ {k} |-> d[x]])

\* ------------------------------------------------------- sampler histograms
\* the counts a key may receive
Levels(shots) == {(i * shots) \div MaxLevels : i \in 1..MaxLevels}

\* the histograms over exactly the keys K whose counts add up to total
RECURSIVE Hists(_, _)
Hists(K, total) ==
  IF Cardinality(K) = 1 THEN {[k \in K |-> total]}
  ELSE LET k == CHOOSE x \in K : TRUE
       IN UNION {{(k :> n) @@ h : h \in Hists(K \ {k}, total - n)}
                   : n \in {l \in Levels(total) : l > 0 /\ l < total}}

\* get_counts() of a one-bit register in which '0' was seen n0 times
CountsOf(n0, shots) ==
  [k \in {x \in {"0", "1"} : IF x = "0" THEN n0 > 0 ELSE n0 < shots}
     |-> IF k = "0" THEN n0 ELSE shots - n0]

\* ------------------------------------------------------------ transpilation
Backends == {"ibm_brisbane", "ibm_torino"}
TwoQubitBasis(b) == IF b = "ibm_torino" THEN "cz" ELSE "ecr"
Rz(a, q) == Instr("rz", q, -1, -1, a, <<>>, "-")
Sx(q) == Instr("sx", q, -1, -1, 0, <<>>, "-")
HNative(q) == <<Rz(3, q), Sx(q), Rz(3, q)>>
RyNative(a, q) == <<Sx(q), Rz(a + 6, q), Sx(q), Rz(6, q)>>

\* an instruction rewritten in the gates the backend executes
NativeOf(ins, b) ==
  CASE ins.op = "h" -> HNative(ins.q)
    [] ins.op = "z" -> <<Rz(6, ins.q)>>
    [] ins.op = "ry" -> RyNative(ins.arg, ins.q)
    [] ins.op = "cx" ->
         IF TwoQubitBasis(b) = "cz"
           THEN HNative(ins.q) \o <<Instr("cz", ins.q, ins.ctl, -1, 0, <<>>, "-")>>
                  \o HNative(ins.q)
           ELSE <<Rz(-3, ins.ctl)>> \o RyNative(6, ins.ctl) \o <<Sx(ins.q)>>
                  \o <<Instr("ecr", ins.q, ins.ctl, -1, 0, <<>>, "-")>>
    [] ins.op = "initialize" ->
         <<Instr("reset", ins.q, -1, -1, 0, <<>>, "-")>> \o RyNative(theta, ins.q)
    [] ins.op = "if_test" ->
         <<[ins EXCEPT !.body = IF @ = "z" THEN "rz" ELSE @]>>
    [] OTHER -> <<ins>>

RECURSIVE NativeSeq(_, _)
NativeSeq(circ, b) ==
  IF circ = <<>> THEN <<>> ELSE NativeOf(Head(circ), b) \o NativeSeq(Tail(circ), b)

\* pm.run(circ) of the pass manager generated for backend b
Transpile(circ, b) == [target |-> b, data |-> NativeSeq(circ, b)]

NoCircuit == [target |-> "none", data |-> <<>>]
NoJob == [state |-> "none", pubs |-> NoCircuit, backend |-> "none", shots |-> 0]
NoResult == [ready |-> FALSE, bob_verif |-> <<>>]

\* -------------------------------------------------------------------- state
VARIABLES
  pc,            \* position of the script
  raised,        \* the call whose exception left the script, or "none"
  service,       \* TRUE once QiskitRuntimeService() has returned
  qc1, qc2,      \* instruction lists of the two circuits
  shot,          \* the shot the simulator is executing
  nshots,        \* shots of the current simulation that have ended
  seen,          \* results of the current simulation's shots
  ran1, ran2,    \* the circuits handed to sim1_sampler and sim2_sampler
  counts1, counts1_int,
  counts2, counts2_int,
  backend_real, tp_qc1, sampler_real,
  job3, submissions, result3,
  counts3, fidelidad,
  drawn

vars == <<pc, raised, service, qc1, qc2, shot, nshots, seen, ran1, ran2,
          counts1, counts1_int, counts2, counts2_int,
          backend_real, tp_qc1, sampler_real, job3, submissions, result3,
          counts3, fidelidad, drawn>>

simVars == <<shot, nshots, seen>>
sim1Vars == <<ran1, counts1, counts1_int>>
sim2Vars == <<ran2, counts2, counts2_int>>
cloudVars == <<backend_real, tp_qc1, sampler_real, job3, submissions, result3,
               counts3, fidelidad>>

Init ==
  /\ pc = "connect"
  /\ raised = "none"
  /\ service = FALSE
  /\ qc1 = <<>>
  /\ qc2 = <<>>
  /\ shot = FreshShot
  /\ nshots = 0
  /\ seen = {}
  /\ ran1 = <<>>
  /\ ran2 = <<>>
  /\ counts1 = <<>>
  /\ counts1_int = <<>>
  /\ counts2 = <<>>
  /\ counts2_int = <<>>
  /\ backend_real = "none"
  /\ tp_qc1 = NoCircuit
  /\ sampler_real = [mode |-> "none"]
  /\ job3 = NoJob
  /\ submissions = 0
  /\ result3 = NoResult
  /\ counts3 = <<>>
  /\ fidelidad = <<0, 1>>
  /\ drawn = {}

\* an exception nothing catches: the script ends there
Raise(tag) ==
  /\ pc' = "crashed"
  /\ raised' = tag

\* service = QiskitRuntimeService()
Connect ==
  /\ pc = "connect"
  /\ \/ /\ service' = TRUE
        /\ pc' = "build1"
        /\ UNCHANGED raised
     \/ /\ Raise("QiskitRuntimeService")
        /\ UNCHANGED service
  /\ UNCHANGED <<qc1, qc2, simVars, sim1Vars, sim2Vars, cloudVars, drawn>>

\* ---------------------------------------------------------- Simulación 1
BuildQc1 ==
  /\ pc = "build1"
  /\ qc1' = QC1
  /\ pc' = "sim1"
  /\ UNCHANGED <<raised, service, qc2, simVars, sim1Vars, sim2Vars, cloudVars, drawn>>

\* the simulator executes the next instruction of the running shot
StepShot(circ) ==
  /\ nshots < MaxRuns
  /\ shot.ip <= Len(circ)
  /\ \E s \in Exec(circ[shot.ip], shot) : shot' = s
  /\ UNCHANGED <<nshots, seen>>

\* the running shot has ended: its classical bits are one result
EndShot(circ) ==
  /\ nshots < MaxRuns
  /\ shot.ip > Len(circ)
  /\ seen' = seen \cup {BitString(shot.creg)}
  /\ nshots' = nshots + 1
  /\ shot' = FreshShot

Sim1Step ==
  /\ pc = "sim1"
  /\ StepShot(qc1)
  /\ UNCHANGED <<pc, raised, service, qc1, qc2, sim1Vars, sim2Vars, cloudVars, drawn>>

Sim1EndShot ==
  /\ pc = "sim1"
  /\ EndShot(qc1)
  /\ UNCHANGED <<pc, raised, service, qc1, qc2, sim1Vars, sim2Vars, cloudVars, drawn>>

\* result1, counts1 and counts1_int
Sim1Result ==
  /\ pc = "sim1"
  /\ nshots = MaxRuns
  /\ \E h \in Hists(seen, Sim1Shots) :
       /\ counts1' = [k \in seen |-> <<h[k], Sim1Shots>>]
       /\ counts1_int' = [k \in seen |-> IntOfScaled(<<h[k], Sim1Shots>>, SHOTS)]
  /\ ran1' = qc1
  /\ nshots' = 0
  /\ seen' = {}
  /\ pc' = "build2"
  /\ UNCHANGED <<raised, service, qc1, qc2, shot, sim2Vars, cloudVars, drawn>>

\* ---------------------------------------------------------- Simulación 2
BuildQc2 ==
  /\ pc = "build2"
  /\ qc2' = QC2
  /\ pc' = "sim2"
  /\ UNCHANGED <<raised, service, qc1, simVars, sim1Vars, sim2Vars, cloudVars, drawn>>

Sim2Step ==
  /\ pc = "sim2"
  /\ StepShot(qc2)
  /\ UNCHANGED <<pc, raised, service, qc1, qc2, sim1Vars, sim2Vars, cloudVars, drawn>>

Sim2EndShot ==
  /\ pc = "sim2"
  /\ EndShot(qc2)
  /\ UNCHANGED <<pc, raised, service, qc1, qc2, sim1Vars, sim2Vars, cloudVars, drawn>>

\* result2, counts2 and counts2_int
Sim2Result ==
  /\ pc = "sim2"
  /\ nshots = MaxRuns
  /\ \E h \in Hists(seen, Sim2Shots) :
       /\ counts2' = [k \in seen |-> <<h[k], Sim2Shots>>]
       /\ counts2_int' = [k \in seen |-> IntOfScaled(<<h[k], Sim2Shots>>, SHOTS)]
  /\ ran2' = qc2
  /\ nshots' = 0
  /\ seen' = {}
  /\ pc' = "backend"
  /\ UNCHANGED <<raised, service, qc1, qc2, shot, sim1Vars, cloudVars, drawn>>

\* ---------------------------------------------------------- Simulación 3
\* backend_real = service.least_busy(...)
SelectBackend ==
  /\ pc = "backend"
  /\ \/ /\ \E b \in Backends : backend_real' = b
        /\ pc' = "transpile"
        /\ UNCHANGED raised
     \/ /\ Raise("least_busy")
        /\ UNCHANGED backend_real
  /\ UNCHANGED <<service, qc1, qc2, simVars, sim1Vars, sim2Vars, tp_qc1,
                 sampler_real, job3, submissions, result3, counts3, fidelidad, drawn>>

\* pm = generate_preset_pass_manager(backend=backend_real, ...); tp_qc1 = pm.run(qc1)
TranspileQc1 ==
  /\ pc = "transpile"
  /\ \/ /\ tp_qc1' = Transpile(qc1, backend_real)
        /\ pc' = "sampler"
        /\ UNCHANGED raised
     \/ /\ Raise("transpile")
        /\ UNCHANGED tp_qc1
  /\ UNCHANGED <<service, qc1, qc2, simVars, sim1Vars, sim2Vars, backend_real,
                 sampler_real, job3, submissions, result3, counts3, fidelidad, drawn>>

\* sampler_real = Sampler(mode=backend_real)
MakeSampler ==
  /\ pc = "sampler"
  /\ \/ /\ sampler_real' = [mode |-> backend_real]
        /\ pc' = "submit"
        /\ UNCHANGED raised
     \/ /\ Raise("Sampler")
        /\ UNCHANGED sampler_real
  /\ UNCHANGED <<service, qc1, qc2, simVars, sim1Vars, sim2Vars, backend_real,
                 tp_qc1, job3, submissions, result3, counts3, fidelidad, drawn>>

\* the uncorrected circuit transpiled and submitted instead
Job3PubsQc2 == Transpile(qc2, sampler_real.mode)
\* the circuit passed to sampler_real.run
Job3Pubs == tp_qc1

\* job3 = sampler_real.run([tp_qc1], shots=4096)
SubmitJob ==
  /\ pc = "submit"
  /\ \/ /\ job3' = [state |-> "queued", pubs |-> Job3Pubs,
                    backend |-> sampler_real.mode, shots |-> Job3Shots]
        /\ submissions' = submissions + 1
        /\ pc' = "await"
        /\ UNCHANGED raised
     \/ /\ Raise("run")
        /\ UNCHANGED <<job3, submissions>>
  /\ UNCHANGED <<service, qc1, qc2, simVars, sim1Vars, sim2Vars, backend_real,
                 tp_qc1, sampler_real, result3, counts3, fidelidad, drawn>>

\* a failed retrieval that goes back to submitting
AwaitFailedRetry ==
  /\ pc' = "submit"
  /\ UNCHANGED raised
\* job3.result() raises
AwaitFailed == Raise("result")

\* result3 = job3.result(): blocks until the job has ended
AwaitResult ==
  /\ pc = "await"
  /\ \/ /\ \E n0 \in {0} \cup Levels(job3.shots) :
             result3' = [ready |-> TRUE, bob_verif |-> CountsOf(n0, job3.shots)]
        /\ job3' = [job3 EXCEPT !.state = "done"]
        /\ pc' = "process"
        /\ UNCHANGED raised
     \/ /\ AwaitFailed
        /\ job3' = [job3 EXCEPT !.state = "failed"]
        /\ UNCHANGED result3
  /\ UNCHANGED <<service, qc1, qc2, simVars, sim1Vars, sim2Vars, backend_real,
                 tp_qc1, sampler_real, submissions, counts3, fidelidad, drawn>>

\* counts3 = pub_result.data['bob_verif'].get_counts(); fidelidad
ProcessResult ==
  /\ pc = "process"
  /\ counts3' = result3.bob_verif
  /\ fidelidad' = <<Get(counts3', "0", 0), SHOTS>>
  /\ pc' = "draw"
  /\ UNCHANGED <<raised, service, qc1, qc2, simVars, sim1Vars, sim2Vars, backend_real,
                 tp_qc1, sampler_real, job3, submissions, result3, drawn>>

\* the three circuit diagrams
DrawCircuits ==
  /\ pc = "draw"
  /\ drawn' = {"circuito_sim1.png", "circuito_sim2.png", "circuito_sim3.png"}
  /\ pc' = "done"
  /\ UNCHANGED <<raised, service, qc1, qc2, simVars, sim1Vars, sim2Vars, cloudVars>>

Next ==
  \/ Connect
  \/ BuildQc1
  \/ Sim1Step
  \/ Sim1EndShot
  \/ Sim1Result
  \/ BuildQc2
  \/ Sim2Step
  \/ Sim2EndShot
  \/ Sim2Result
  \/ SelectBackend
  \/ TranspileQc1
  \/ MakeSampler
  \/ SubmitJob
  \/ AwaitResult
  \/ ProcessResult
  \/ DrawCircuits

Spec == Init /\ [][Next]_vars


\* ------------------------------------------------------------------ helpers
Range(f) == {f[i] : i \in DOMAIN f}
\* value of Alice's register as written: alice_meas[1] then alice_meas[0]
AliceString(creg) == <<creg[c_alice[2]], creg[c_alice[1]]>>
Shot1Done == pc = "sim1" /\ qc1 # <<>> /\ shot.ip > Len(qc1)
Shot2Done == pc = "sim2" /\ qc2 # <<>> /\ shot.ip > Len(qc2)
IsIfTest(ins) == ins.op = "if_test"
NotIfTest(ins) == ~IsIfTest(ins)
WithoutIfTests(circ) == SelectSeq(circ, NotIfTest)
CloudCalls == {"QiskitRuntimeService", "least_busy", "transpile", "Sampler", "run", "result"}
Processed == DOMAIN counts3 # {} \/ fidelidad # <<0, 1>>

\* number of instructions of steps 2, 3 and 4 (through the barrier after
\* Alice's measurement)
Step4End == 11

\* the shots a circuit can be in after its first n instructions
RECURSIVE Runs(_, _)
Runs(circ, n) ==
  IF n = 0 THEN {FreshShot}
  ELSE UNION {Exec(circ[n], s) : s \in Runs(circ, n - 1)}

QuantumAndBits(S) == {[psi |-> s.psi, creg |-> s.creg, qres |-> s.qres] : s \in S}

\* ------------------------------------------------------------------- claims

\* C1: in the noiseless run of qc1, whatever Alice measured, a shot that has
\* ended has bob_verif = 0, and no key of the sampled results has
\* bob_verif = 1.
C1_IdealVerifAlwaysZero ==
  /\ Shot1Done => shot.creg[c_bob_verif] = 0
  /\ pc = "sim1" => \A k \in seen : k[1] = 0
  /\ \A k \in DOMAIN counts1 : k[1] = 0

\* a shot of qc1 ended after Alice measured 11 and both corrections acted
C1_Witness ==
  /\ Shot1Done
  /\ AliceString(shot.creg) = <<1, 1>>
  /\ shot.creg[c_bob_verif] = 0
  /\ "x" \in Range(shot.trace) /\ "z" \in Range(shot.trace)

\* C2: in the noiseless run of qc2, bob_verif_2 is never 0 in a shot where
\* Alice measured 01, 10 or 11.
C2_SuccessOnlyWhenAlice00 ==
  (Shot2Done /\ AliceString(shot.creg) # <<0, 0>>) => shot.creg[c_bob_verif] # 0

\* C3: a failure of a cloud call (connecting, selecting the backend,
\* transpiling, submitting, retrieving the result) never leaves the script
\* as an unhandled exception.
C3_CloudFailureCaught ==
  raised \in CloudCalls => pc # "crashed"

\* C4: the job is submitted at most once; the script waits for the result
\* exactly while the job is queued, right after the submission; results are
\* processed only once the result has arrived; after a failed submission or
\* retrieval nothing is resubmitted and nothing is processed.
C4_SubmitOnceAwaitThenProcess ==
  /\ [](submissions <= 1)
  /\ [](pc = "await" <=> job3.state = "queued")
  /\ [](result3.ready => submissions = 1)
  /\ []((pc = "process" \/ Processed) => result3.ready)
  /\ [](raised \in {"run", "result"} =>
          pc = "crashed" /\ ~Processed /\ ~result3.ready)
  /\ [][submissions' # submissions => (submissions' = 1 /\ pc' = "await")]_vars
  /\ [][pc = "crashed" => pc' = "crashed"]_vars

\* the result of the one submitted job has been processed
C4_Witness ==
  /\ pc = "draw"
  /\ submissions = 1
  /\ result3.ready
  /\ Processed

\* C5: what is submitted is qc1 transpiled for the backend the job runs on
\* (not qc2, not qc1 as built); the backend is selected before transpiling
\* and the circuit is transpiled before submitting; qc1 is the circuit that
\* Simulation 1 ran and is not modified once built.
C5_SubmitsTranspiledQc1 ==
  /\ [](job3.state # "none" =>
          /\ job3.pubs = Transpile(qc1, job3.backend)
          /\ job3.pubs.target = job3.backend
          /\ job3.pubs.data # qc1
          /\ job3.pubs # Transpile(qc2, job3.backend)
          /\ tp_qc1 # NoCircuit
          /\ ran1 = qc1)
  /\ [](tp_qc1 # NoCircuit =>
          backend_real # "none" /\ tp_qc1 = Transpile(qc1, backend_real))
  /\ [][qc1 # <<>> => qc1' = qc1]_vars

\* the job has been submitted
C5_Witness ==
  /\ job3.state = "queued"
  /\ job3.backend = "ibm_torino"
  /\ job3.pubs.data # <<>>

\* C6: in a shot of qc1 the gates run in the documented order: Alice's two
\* measurements, then the corrections of the table (none for 00, Z for 01,
\* X for 10, Z and then X for 11), then Ry(-theta) and Bob's measurement.
C6_Table(a) ==
  CASE a = <<0, 0>> -> <<>>
    [] a = <<0, 1>> -> <<"z">>
    [] a = <<1, 0>> -> <<"x">>
    [] a = <<1, 1>> -> <<"z", "x">>

C6_CorrectionTable ==
  Shot1Done =>
    shot.trace = <<"initialize", "h", "cx", "cx", "h", "measure", "measure">>
                   \o C6_Table(AliceString(shot.creg)) \o <<"ry", "measure">>

\* C7: in a shot of qc1, X is applied exactly when qubit 0 was measured 1
\* and Z exactly when qubit 1 was measured 1.
C7_XFollowsQ0ZFollowsQ1 ==
  Shot1Done =>
    /\ ("x" \in Range(shot.trace)) <=> (shot.qres[0] = 1)
    /\ ("z" \in Range(shot.trace)) <=> (shot.qres[1] = 1)

C9_ShotsAgree ==
  /\ \A k \in DOMAIN counts1 : counts1[k][2] = SHOTS
  /\ \A k \in DOMAIN counts2 : counts2[k][2] = SHOTS
  /\ job3.state # "none" => job3.shots = SHOTS
  /\ SumOf(counts1_int) <= SHOTS
  /\ SumOf(counts2_int) <= SHOTS
  /\ Processed =>
       /\ fidelidad[2] = SHOTS
       /\ 0 <= fidelidad[1] /\ fidelidad[1] <= fidelidad[2]
       /\ ("0" \notin DOMAIN counts3) => fidelidad[1] = 0

\* the hardware never returned '0', after two-key simulated histograms
C9_Witness ==
  /\ pc = "done"
  /\ DOMAIN counts3 = {"1"}
  /\ fidelidad = <<0, SHOTS>>
  /\ Cardinality(DOMAIN counts1_int) = 2
  /\ Cardinality(DOMAIN counts2_int) = 2

====
